---------------------------- MODULE Spec2Model ----------------------------
(***************************************************************************)
(* Model of doggo's export resolution engine (core.ts, kept here as        *)
(* src/unnamed/part_002): analyzeDirectory in public-API mode              *)
(* (analyzeFromExports, traceExportsFromFile, findImportSource,            *)
(* resolveImportPath, findSymbolInFile, addExport, analyzeFileForJSDoc,    *)
(* parseExportedSymbol) and calculateStats.                                *)
(*                                                                         *)
(* Source text is modelled line by line.  A line is a record naming the    *)
(* form of the trimmed line (which startsWith / regular expression of the  *)
(* code it matches) and the tokens those expressions capture.  Identifiers *)
(* and paths are sequences of chunks, so that String.startsWith, \b and    *)
(* string concatenation are computed and not assumed.                      *)
(* Line numbers are 1-based everywhere (the code's index i is Line - 1).   *)
(***************************************************************************)
EXTENDS Integers, Sequences, FiniteSets, TLC

(***************************************************************************)
(* Bounds of the model.                                                    *)
(***************************************************************************)
MaxGraphLines == 3   \* lines in all the files of a re-export graph, together
MaxDocLines == 3     \* lines of the file under an export * in a documentation file system
MaxLocalLines == 3   \* lines of the entry file in a local-declaration file system
MaxScanLines == 3    \* lines of the file analysed in a full-scan file system
MaxKindLines == 2    \* lines of the file analysed in a file system of declarations of all kinds
MaxCycleLines == 3   \* lines of each of the two files of an export * cycle
MaxLocateLines == 3  \* lines of the file findSymbolInFile is called on alone
MaxBlockLines == 8   \* lines of a file of one-line documentation blocks and declarations
MaxMembers == 3      \* members listed by a workspace configuration
MaxMemberSymbols == 2 \* symbols of a workspace member
MaxStack == 5        \* depth of the traceExportsFromFile call stack
MaxSymbols == 200    \* length of the symbol list handed to calculateStats alone

(***************************************************************************)
(* Identifiers.  IsPrefix is String.startsWith on identifiers.             *)
(***************************************************************************)
NoName == <<>>
foo == <<"foo">>
bar == <<"bar">>
Server == <<"Server">>
ServerRateLimitDescription == <<"Server", "RateLimitDescription">>

IsPrefix(p, s) == Len(p) <= Len(s) /\ SubSeq(s, 1, Len(p)) = p

(***************************************************************************)
(* Paths and module specifiers.  A path is the sequence of its chunks      *)
(* (<<"a", ".ts">> is a.ts); every file lives in rootPath, so join and     *)
(* relative are the identity on these.  A specifier is relative            *)
(* ("./a.ts", "./a") or bare ("@std/path").                                *)
(***************************************************************************)
NoPath == <<>>
FileE == <<"e", ".ts">>
FileA == <<"a", ".ts">>
FileB == <<"b", ".ts">>
Files == {FileE, FileA, FileB}

NoSpec == [rel |-> FALSE, path |-> NoPath]
Rel(p) == [rel |-> TRUE, path |-> p]
BarePkg == [rel |-> FALSE, path |-> <<"@std/path">>]

(***************************************************************************)
(* Lines.                                                                  *)
(*   export  : export <kw> <name> ... {   (a direct export, on one line)   *)
(*   default : export default <kw> <name> ... {, kw function or class, the  *)
(*             name empty when there is none; or export default <name>;    *)
(*             with kw empty and the name standing for the expression     *)
(*   bare    : <kw> <name> ... {          (a declaration without export)   *)
(*   star    : export * from "<spec>";                                     *)
(*   named   : export { <items> } from "<spec>";                           *)
(*   block   : export { <items> };                                         *)
(*   import  : import { <items> } from "<spec>";                           *)
(*   doc     : /** ... */       docopen : /**       docclose :  */         *)
(*   blank, comment (// ...), other (any other statement)                  *)
(* An item is <<a, b>> for "a as b" and <<a, NoName>> for "a".  mod says   *)
(* that the line's text includes "@module".                                *)
(***************************************************************************)
Ln(k, kw, name, items, spec, mod) ==
  [k |-> k, kw |-> kw, name |-> name, items |-> items, spec |-> spec, mod |-> mod]
Blank == Ln("blank", "", NoName, <<>>, NoSpec, FALSE)
Comment == Ln("comment", "", NoName, <<>>, NoSpec, FALSE)
Other == Ln("other", "", NoName, <<>>, NoSpec, FALSE)
Doc(mod) == Ln("doc", "", NoName, <<>>, NoSpec, mod)
DocOpen(mod) == Ln("docopen", "", NoName, <<>>, NoSpec, mod)
DocClose(mod) == Ln("docclose", "", NoName, <<>>, NoSpec, mod)
ExportDecl(kw, name) == Ln("export", kw, name, <<>>, NoSpec, FALSE)
BareDecl(kw, name) == Ln("bare", kw, name, <<>>, NoSpec, FALSE)
Default(kw, name) == Ln("default", kw, name, <<>>, NoSpec, FALSE)
StarFrom(spec) == Ln("star", "", NoName, <<>>, spec, FALSE)
NamedFrom(items, spec) == Ln("named", "", NoName, items, spec, FALSE)
Block(items) == Ln("block", "", NoName, items, NoSpec, FALSE)
Import(items, spec) == Ln("import", "", NoName, items, spec, FALSE)

VARIABLES
  fs,             \* the file system: path -> [exists, lines]
  rootExists,     \* whether Deno.stat(rootPath) succeeds
  exports,        \* the configuration's exports field, as the list of its values
  pc,             \* position in analyzeDirectory
  entryIdx,       \* analyzeFromExports: index of the next export path to trace
  stack,          \* call stack of traceExportsFromFile
  analyzedFiles,  \* the visited set
  exportMap,      \* Map<string, TracedExport[]>, in insertion order
  symbols,        \* the result's symbols
  stats,          \* the result's stats
  outcome,        \* "running", "returned" or "threw"
  rootIsFile,     \* whether the target path is a single file (stat.isFile)
  files,          \* analyzeAllFiles: the source files still to analyse
  previous,       \* the symbols returned by the run before this one, if any
  workspace,      \* WorkspaceAnalyzer: the members listed by the configuration
  memberIdx,      \* WorkspaceAnalyzer.analyze: index of the next member
  members,        \* WorkspaceAnalyzer.analyze: the member records
  aggregate,      \* WorkspaceAnalyzer.analyze: the report's aggregate
  request,        \* a single call of one function of core.ts: its arguments
  answer          \* that call's return value

\* what analyzeFromExports and its callees never touch
scanVars == <<rootIsFile, files, previous>>
packVars == <<workspace, memberIdx, members, aggregate>>
unitVars == <<request, answer>>

vars == <<fs, rootExists, exports, pc, entryIdx, stack, analyzedFiles,
          exportMap, symbols, stats, outcome, scanVars, packVars, unitVars>>


(***************************************************************************)
(* File system access: Deno.stat and Deno.readTextFile.                    *)
(***************************************************************************)
Exists(p) == p \in DOMAIN fs /\ fs[p].exists
Readable(p) == Exists(p) /\ fs[p].readable
Lines(p) == fs[p].lines

(***************************************************************************)
(* rootPath = resolve(targetPath): the directory that holds the files, or   *)
(* the single file TargetFile.  join(rootPath, p) is p under the directory  *)
(* and a path below the file (e.ts/e.ts, which no file system holds) under  *)
(* the file.                                                                *)
(***************************************************************************)
TargetFile == FileE
join(p) == IF rootIsFile THEN TargetFile \o <<"/">> \o p ELSE p

(***************************************************************************)
(* resolveImportPath: the exact path, then the extensions in order; a base *)
(* path that ends with ".ts" or ".js" is tried as it is, for each of them. *)
(***************************************************************************)
Extensions == <<".ts", ".tsx", ".js", ".jsx", ".mjs", "/mod.ts", "/index.ts">>

EndsWithTsOrJs(p) ==
  Len(p) > 1 /\ p[Len(p)] \in {".ts", ".js", "/mod.ts", "/index.ts"}

\* a resolveImportPath that appends the extension whatever the base path ends with
FullPath_AlwaysAppend(basePath, ext) == Append(basePath, ext)

FullPath(basePath, ext) ==
  IF EndsWithTsOrJs(basePath) THEN basePath ELSE Append(basePath, ext)

RECURSIVE TryExtensions(_, _)
TryExtensions(basePath, n) ==
  IF n > Len(Extensions) THEN NoPath
  ELSE IF Exists(FullPath(basePath, Extensions[n]))
       THEN FullPath(basePath, Extensions[n])
       ELSE TryExtensions(basePath, n + 1)

resolveImportPath(importPath) ==
  IF importPath.rel
  THEN IF Exists(importPath.path) THEN importPath.path
       ELSE TryExtensions(importPath.path, 1)
  ELSE NoPath

(***************************************************************************)
(* The line classifier.                                                    *)
(***************************************************************************)
isDirectExport(line) == line.k \in {"export", "default"}

\* trimmed.startsWith("export ")
StartsWithExport(line) == line.k \in {"export", "default", "star", "named", "block"}

\* the name captured by the first matching pattern; no pattern matches across
\* the word default, and a line that includes "export default" gives "default";
\* NoName for null
DefaultName == <<"default">>
extractExportName(line) ==
  CASE line.k = "export" -> line.name
    [] line.k = "default" -> DefaultName
    [] OTHER -> NoName

\* exportItem.split(/\s+as\s+/): originalName, and exportedName || originalName
OriginalName(item) == item[1]
ExportedName(item) == IF item[2] = NoName THEN item[1] ELSE item[2]

(***************************************************************************)
(* findSymbolInFile: the first line that directly exports symbolName, or   *)
(* that holds a bare declaration of it (the name followed by \b, so the    *)
(* whole identifier); 0 stands for null, as in `lineNum || i + 1`.         *)
(***************************************************************************)
DeclaresBare(line, symbolName) ==
  /\ line.k = "bare"
  /\ line.kw \in {"function", "async function", "class", "interface", "type",
                  "enum", "const", "let", "var"}
  /\ line.name = symbolName

RECURSIVE FindSymbolFrom(_, _, _)
FindSymbolFrom(lines, symbolName, i) ==
  IF i > Len(lines) THEN 0
  ELSE IF \/ isDirectExport(lines[i]) /\ extractExportName(lines[i]) = symbolName
          \/ DeclaresBare(lines[i], symbolName)
       THEN i
       ELSE FindSymbolFrom(lines, symbolName, i + 1)

findSymbolInFile(filePath, symbolName) ==
  IF Readable(filePath) THEN FindSymbolFrom(Lines(filePath), symbolName, 1) ELSE 0

(***************************************************************************)
(* findImportSource: the resolved module of the first import line one of   *)
(* whose items is symbolName, as the imported name or as its alias.        *)
(***************************************************************************)
ImportsName(line, symbolName) ==
  /\ line.k = "import"
  /\ \E n \in 1..Len(line.items) :
       line.items[n][1] = symbolName \/ line.items[n][2] = symbolName

RECURSIVE FindImportFrom(_, _, _)
FindImportFrom(lines, symbolName, i) ==
  IF i > Len(lines) THEN NoPath
  ELSE IF ImportsName(lines[i], symbolName)
       THEN resolveImportPath(lines[i].spec)
       ELSE FindImportFrom(lines, symbolName, i + 1)

findImportSource(lines, symbolName) == FindImportFrom(lines, symbolName, 1)

(***************************************************************************)
(* The export map: a sequence of [path, exps] in insertion order.          *)
(***************************************************************************)
TracedExport(originalName, exportedName, sourcePath, line) ==
  [originalName |-> originalName, exportedName |-> exportedName,
   sourcePath |-> sourcePath, line |-> line]

HasBucket(map, filePath) == \E n \in 1..Len(map) : map[n].path = filePath
BucketIndex(map, filePath) == CHOOSE n \in 1..Len(map) : map[n].path = filePath
\* exportMap.get(filePath) || []
Bucket(map, filePath) ==
  IF HasBucket(map, filePath) THEN map[BucketIndex(map, filePath)].exps ELSE <<>>

\* an addExport that never finds a duplicate
IsDuplicate_Never(existing, exportInfo) == FALSE

IsDuplicate(existing, exportInfo) ==
  \E n \in 1..Len(existing) :
    /\ existing[n].exportedName = exportInfo.exportedName
    /\ existing[n].sourcePath = exportInfo.sourcePath

addExport(map, filePath, exportInfo) ==
  LET m1 == IF HasBucket(map, filePath) THEN map
            ELSE Append(map, [path |-> filePath, exps |-> <<>>])
      n == BucketIndex(m1, filePath)
  IN IF IsDuplicate(m1[n].exps, exportInfo) THEN m1
     ELSE [m1 EXCEPT ![n].exps = Append(@, exportInfo)]

\* a copy that stops after the first export of the target
AddAll_FirstOnly(map, filePath, exps, n) ==
  IF exps = <<>> THEN map ELSE addExport(map, filePath, exps[1])

RECURSIVE AddAll(_, _, _, _)
AddAll(map, filePath, exps, n) ==
  IF n > Len(exps) THEN map
  ELSE AddAll(addExport(map, filePath, exps[n]), filePath, exps, n + 1)


(***************************************************************************)
(* traceExportsFromFile, one line of the traced file per step.  A frame of *)
(* the call stack is [path, i, at]: at = "enter" before the visited check, *)
(* "scan" before line i, "copy" when the recursive call made for the       *)
(* export * of line i has returned and its exports are still to be copied. *)
(***************************************************************************)
Frame(path, i, at) == [path |-> path, i |-> i, at |-> at]
Top == stack[Len(stack)]
Pop == SubSeq(stack, 1, Len(stack) - 1)
SetTop(f) == [stack EXCEPT ![Len(stack)] = f]

\* a traceExportsFromFile without its visited check
AlreadyAnalyzed_Never(filePath, visited) == FALSE

\* if (analyzedFiles.has(filePath)) return;
AlreadyAnalyzed(filePath, visited) == filePath \in visited

\* export { a, b as c } from "./module": one traced export per item
RECURSIVE TraceItemsFrom(_, _, _, _, _, _)
TraceItemsFrom(map, filePath, items, resolvedPath, i, n) ==
  IF n > Len(items) THEN map
  ELSE LET originalName == OriginalName(items[n])
           lineNum == findSymbolInFile(resolvedPath, originalName)
       IN TraceItemsFrom(
            addExport(map, filePath,
                      TracedExport(originalName, ExportedName(items[n]), resolvedPath,
                                   IF lineNum # 0 THEN lineNum ELSE i)),
            filePath, items, resolvedPath, i, n + 1)

\* export { a, b as c }: the import's module if the name was imported, else this file
RECURSIVE TraceBlockItems(_, _, _, _, _)
TraceBlockItems(map, filePath, items, i, n) ==
  IF n > Len(items) THEN map
  ELSE LET originalName == OriginalName(items[n])
           importSource == findImportSource(Lines(filePath), originalName)
           sourcePath == IF importSource # NoPath THEN importSource ELSE filePath
           lineNum == findSymbolInFile(sourcePath, originalName)
       IN TraceBlockItems(
            addExport(map, filePath,
                      TracedExport(originalName, ExportedName(items[n]), sourcePath,
                                   IF lineNum # 0 THEN lineNum ELSE i)),
            filePath, items, i, n + 1)

\* the effect on the export map of line i of filePath, an export * apart
TraceLine(map, filePath, i) ==
  LET line == Lines(filePath)[i] IN
  CASE line.k = "named" ->
         LET resolvedPath == resolveImportPath(line.spec)
         IN IF resolvedPath # NoPath
            THEN TraceItemsFrom(map, filePath, line.items, resolvedPath, i, 1)
            ELSE map
    [] line.k = "block" -> TraceBlockItems(map, filePath, line.items, i, 1)
    [] isDirectExport(line) /\ extractExportName(line) # NoName ->
         addExport(map, filePath,
                   TracedExport(extractExportName(line), extractExportName(line),
                                filePath, i))
    [] OTHER -> map

\* whether line i of filePath is an export * whose specifier resolves
IsResolvedStar(filePath, i) ==
  /\ Lines(filePath)[i].k = "star"
  /\ resolveImportPath(Lines(filePath)[i].spec) # NoPath


(***************************************************************************)
(* analyzeFileForJSDoc: the documentation blocks of a file.  A block that  *)
(* closes on line i and does not include "@module" is bound to the next    *)
(* line j that is neither blank nor a // comment, if that line is an       *)
(* export, and to the lines j+1 .. j+5.                                    *)
(***************************************************************************)
LookAhead == 5

SkipsOver(line) == line.k \in {"blank", "comment"}

RECURSIVE NextCodeLine(_, _)
NextCodeLine(lines, j) ==
  IF j > Len(lines) THEN 0
  ELSE IF SkipsOver(lines[j]) THEN NextCodeLine(lines, j + 1) ELSE j

Min(a, b) == IF a <= b THEN a ELSE b

\* an associator that binds a block to the export line alone
BoundLines_ExportLineOnly(lines, i) ==
  LET j == NextCodeLine(lines, i + 1)
  IN IF j # 0 /\ (isDirectExport(lines[j]) \/ StartsWithExport(lines[j]))
     THEN {j}
     ELSE {}

BoundLines(lines, i) ==
  LET j == NextCodeLine(lines, i + 1)
  IN IF j # 0 /\ (isDirectExport(lines[j]) \/ StartsWithExport(lines[j]))
     THEN j .. Min(j + LookAhead, Len(lines))
     ELSE {}

\* inDoc: currentJSDoc.length > 0; modSeen: currentJSDoc includes "@module"
RECURSIVE JsDocFrom(_, _, _, _)
JsDocFrom(lines, i, inDoc, modSeen) ==
  IF i > Len(lines) THEN {}
  ELSE LET line == lines[i] IN
    CASE line.k = "doc" ->
           (IF line.mod THEN {} ELSE BoundLines(lines, i))
             \cup JsDocFrom(lines, i + 1, inDoc, modSeen)
      [] line.k = "docopen" -> JsDocFrom(lines, i + 1, TRUE, line.mod)
      [] line.k \notin {"doc", "docopen"} /\ inDoc /\ line.k = "docclose" ->
           (IF modSeen \/ line.mod THEN {} ELSE BoundLines(lines, i))
             \cup JsDocFrom(lines, i + 1, FALSE, FALSE)
      [] line.k \notin {"doc", "docopen", "docclose"} /\ inDoc ->
           JsDocFrom(lines, i + 1, TRUE, modSeen \/ line.mod)
      [] OTHER -> JsDocFrom(lines, i + 1, inDoc, modSeen)

jsDocBlocks(lines) == JsDocFrom(lines, 1, FALSE, FALSE)

(***************************************************************************)
(* parseExportedSymbol on a declaration line (exported or not): the kind   *)
(* follows the keyword.  originalName is bookkeeping of the model: the     *)
(* originalName of the traced export the symbol was made for.              *)
(***************************************************************************)
TypeOfKeyword(kw) ==
  CASE kw \in {"function", "async function"} -> "function"
    [] kw = "class" -> "class"
    [] kw = "interface" -> "interface"
    [] kw = "type" -> "type"
    [] kw = "enum" -> "enum"
    [] kw = "const" -> "const"
    [] OTHER -> "variable"

\* trimmed.includes("const"), on the keyword and the chunks of the name
IncludesConst(line) ==
  line.kw = "const" \/ \E n \in 1..Len(line.name) : line.name[n] = "const"

\* export const / let / var: "const" if the line includes "const" anywhere;
\* const / let / var without export: "const" if the line starts with it
TypeOfLine(line) ==
  IF line.k = "export" /\ line.kw \in {"const", "let", "var"}
  THEN IF IncludesConst(line) THEN "const" ELSE "variable"
  ELSE TypeOfKeyword(line.kw)

\* export default: trimmed.includes(word), on the keyword and the chunks of
\* the name, and the identifier that /word\s+(\w+)/ captures, if any
IncludesWord(line, word) ==
  \/ line.kw = word \/ (word = "function" /\ line.kw = "async function")
  \/ \E n \in 1..Len(line.name) : line.name[n] = word
NameAfter(line, word) ==
  IF /\ line.kw = word \/ (word = "function" /\ line.kw = "async function")
     /\ line.name # NoName
  THEN line.name ELSE DefaultName
TypeOfDefault(line) ==
  CASE IncludesWord(line, "function") -> "function"
    [] IncludesWord(line, "class") -> "class"
    [] OTHER -> "variable"
NameOfDefault(line) ==
  CASE IncludesWord(line, "function") -> NameAfter(line, "function")
    [] IncludesWord(line, "class") -> NameAfter(line, "class")
    [] OTHER -> DefaultName

\* export { a, b }: the first name only, as a variable
NameOfLine(line) ==
  CASE line.k = "block" -> OriginalName(line.items[1])
    [] line.k = "default" -> NameOfDefault(line)
    [] OTHER -> line.name

parseExportedSymbol(line, lineNo, filePath, blocks) ==
  [name |-> NameOfLine(line),
   type |-> IF line.k = "default" THEN TypeOfDefault(line) ELSE TypeOfLine(line),
   file |-> filePath,
   line |-> lineNo, hasJSDoc |-> lineNo \in blocks,
   exportType |-> IF line.k = "default" THEN "default" ELSE "named",
   originalName |-> NameOfLine(line)]

\* whether parseExportedSymbol finds a name on the line (else it returns null)
ParsesToSymbol(line) ==
  \/ line.k \in {"export", "bare"} /\ line.name # NoName
  \/ line.k = "block" /\ line.items # <<>>
  \/ line.k = "default"

Renamed(symbol, exp) ==
  [symbol EXCEPT !.name = exp.exportedName, !.originalName = exp.originalName]

\* a direct export line: the first traced export of that name, and no further one
FirstTracking(sourceExports, lineExportName, sourcePath) ==
  LET hits == {n \in 1..Len(sourceExports) :
                 /\ sourceExports[n].originalName = lineExportName
                 /\ sourceExports[n].sourcePath = sourcePath}
  IN IF hits = {} THEN 0 ELSE CHOOSE n \in hits : \A m \in hits : n <= m

\* trimmed.startsWith(`${keyword} ${exp.originalName}`), for the eight keywords
StartsWithDeclarationOf(line, originalName) ==
  /\ line.k = "bare"
  /\ line.kw \in {"class", "function", "const", "let", "var", "interface",
                  "type", "enum"}
  /\ IsPrefix(originalName, line.name)

\* a line that is no direct export: every traced export whose pattern it starts with
RECURSIVE BareSymbols(_, _, _, _, _, _)
BareSymbols(lines, i, sourceExports, sourcePath, blocks, n) ==
  IF n > Len(sourceExports) THEN <<>>
  ELSE (IF StartsWithDeclarationOf(lines[i], sourceExports[n].originalName)
        THEN <<Renamed(parseExportedSymbol(lines[i], i, sourcePath, blocks),
                       sourceExports[n])>>
        ELSE <<>>)
       \o BareSymbols(lines, i, sourceExports, sourcePath, blocks, n + 1)

LineSymbols(lines, i, sourceExports, sourcePath, blocks) ==
  IF isDirectExport(lines[i])
  THEN LET lineExportName == extractExportName(lines[i])
           n == FirstTracking(sourceExports, lineExportName, sourcePath)
       IN IF lineExportName # NoName /\ n # 0
          THEN <<Renamed(parseExportedSymbol(lines[i], i, sourcePath, blocks),
                         sourceExports[n])>>
          ELSE <<>>
  ELSE BareSymbols(lines, i, sourceExports, sourcePath, blocks, 1)

RECURSIVE FileSymbols(_, _, _, _, _)
FileSymbols(lines, i, sourceExports, sourcePath, blocks) ==
  IF i > Len(lines) THEN <<>>
  ELSE LineSymbols(lines, i, sourceExports, sourcePath, blocks)
       \o FileSymbols(lines, i + 1, sourceExports, sourcePath, blocks)

(***************************************************************************)
(* Deduplication by key, keeping the first of each key, and grouping by    *)
(* source file in the order the files first appear.                        *)
(***************************************************************************)
ExportKey(exp) == <<exp.sourcePath, exp.originalName, exp.exportedName>>

RECURSIVE Unique(_, _, _)
Unique(exps, n, seen) ==
  IF n > Len(exps) THEN <<>>
  ELSE IF ExportKey(exps[n]) \in seen THEN Unique(exps, n + 1, seen)
       ELSE <<exps[n]>> \o Unique(exps, n + 1, seen \cup {ExportKey(exps[n])})

RECURSIVE Flatten(_, _)
Flatten(map, n) ==
  IF n > Len(map) THEN <<>> ELSE map[n].exps \o Flatten(map, n + 1)

\* an analyzeFromExports that takes the exports of one bucket only
uniqueExports_LastBucket(map) ==
  IF map = <<>> THEN <<>> ELSE Unique(map[Len(map)].exps, 1, {})

\* analyzeFromExports: the unique exports of all the buckets of the export map
uniqueExports(map) == Unique(Flatten(map, 1), 1, {})

IsSource(exp, sourcePath) == exp.sourcePath = sourcePath

RECURSIVE SourceOrder(_, _, _)
SourceOrder(exps, n, seen) ==
  IF n > Len(exps) THEN <<>>
  ELSE IF exps[n].sourcePath \in seen THEN SourceOrder(exps, n + 1, seen)
       ELSE <<exps[n].sourcePath>>
            \o SourceOrder(exps, n + 1, seen \cup {exps[n].sourcePath})

RECURSIVE SourcesSymbols(_, _, _)
SourcesSymbols(exps, sources, n) ==
  IF n > Len(sources) THEN <<>>
  ELSE LET sourcePath == sources[n]
           sourceExports == SelectSeq(exps, LAMBDA e : IsSource(e, sourcePath))
       IN (IF Readable(sourcePath)
           THEN FileSymbols(Lines(sourcePath), 1, sourceExports, sourcePath,
                            jsDocBlocks(Lines(sourcePath)))
           ELSE <<>>)
          \o SourcesSymbols(exps, sources, n + 1)

analyzeFileForJSDoc(exps) ==
  LET seenExports == Unique(exps, 1, {})
  IN SourcesSymbols(seenExports, SourceOrder(seenExports, 1, {}), 1)


(***************************************************************************)
(* Full scan: findSourceFiles and analyzeFile.  analyzeFile binds a        *)
(* documentation block, whatever it includes, to the next line that is     *)
(* neither blank nor a // comment, whatever that line is, and to no other. *)
(***************************************************************************)
ValidExts == {".ts", ".tsx", ".js", ".jsx", ".mjs"}
IsSourceFile(p) == Len(p) > 1 /\ p[Len(p)] \in ValidExts

\* the orders in which walk may yield the source files of the directory
WalkOrders ==
  LET found == {f \in DOMAIN fs : Exists(f) /\ IsSourceFile(f)}
  IN {order \in [1..Cardinality(found) -> found] :
        \A m, n \in DOMAIN order : order[m] = order[n] => m = n}

findSourceFiles ==
  IF rootIsFile
  THEN {IF IsSourceFile(TargetFile) THEN <<TargetFile>> ELSE <<>>}
  ELSE WalkOrders

\* an analyzeFile that binds a block to the very next line only
NextLineBound_Adjacent(lines, i) == IF i + 1 <= Len(lines) THEN {i + 1} ELSE {}

NextLineBound(lines, i) ==
  LET j == NextCodeLine(lines, i + 1) IN IF j # 0 THEN {j} ELSE {}

RECURSIVE FileDocFrom(_, _, _)
FileDocFrom(lines, i, inDoc) ==
  IF i > Len(lines) THEN {}
  ELSE LET line == lines[i] IN
    CASE line.k = "doc" -> NextLineBound(lines, i) \cup FileDocFrom(lines, i + 1, inDoc)
      [] line.k = "docopen" -> FileDocFrom(lines, i + 1, TRUE)
      [] line.k = "docclose" /\ inDoc ->
           NextLineBound(lines, i) \cup FileDocFrom(lines, i + 1, FALSE)
      [] OTHER -> FileDocFrom(lines, i + 1, inDoc)

\* startsWith("export "), or includes("export {") and not "export type {"
isExportLine(line) == StartsWithExport(line)

RECURSIVE FileScanSymbols(_, _, _, _)
FileScanSymbols(lines, i, filePath, blocks) ==
  IF i > Len(lines) THEN <<>>
  ELSE (IF isExportLine(lines[i]) /\ ParsesToSymbol(lines[i])
        THEN <<parseExportedSymbol(lines[i], i, filePath, blocks)>>
        ELSE <<>>)
       \o FileScanSymbols(lines, i + 1, filePath, blocks)

analyzeFile(filePath) ==
  FileScanSymbols(Lines(filePath), 1, filePath, FileDocFrom(Lines(filePath), 1, FALSE))


(***************************************************************************)
(* calculateStats.  Math.round((documented / total) * 100) is computed in  *)
(* IEEE-754 doubles: it is the exact quotient rounded half up, except      *)
(* where the exact value is a half and the double product falls just       *)
(* below it.  RoundsBelowHalf lists those (documented, total), total up    *)
(* to 201 (23 / 40 * 100 is 57.49999999999999 in doubles).                 *)
(***************************************************************************)
RoundsBelowHalf ==
  {<<23, 40>>, <<46, 80>>, <<69, 120>>, <<92, 160>>, <<29, 200>>, <<57, 200>>,
   <<113, 200>>, <<115, 200>>}

\* a percentage that truncates instead of rounding
MathRoundPercent_Truncated(documented, total) == (100 * documented) \div total

MathRoundPercent(documented, total) ==
  IF <<documented, total>> \in RoundsBelowHalf
  THEN (100 * documented) \div total
  ELSE (200 * documented + total) \div (2 * total)

IsDocumented(s) == s.hasJSDoc
IsUndocumented(s) == ~s.hasJSDoc

calculateStats(syms) ==
  LET Count(seq, Test(_)) == Len(SelectSeq(seq, Test))
      total == Len(syms)
      documented == Count(syms, IsDocumented)
      types == {syms[n].type : n \in 1..Len(syms)}
  IN [total |-> total,
      documented |-> documented,
      undocumented |-> Count(syms, IsUndocumented),
      percentage |-> IF total > 0 THEN MathRoundPercent(documented, total) ELSE 100,
      byType |-> [t \in types |->
                    [total |-> Count(syms, LAMBDA s : s.type = t),
                     documented |-> Count(syms, LAMBDA s : s.type = t /\ s.hasJSDoc)]]]

NoStats == [total |-> 0, documented |-> 0, undocumented |-> 0, percentage |-> 0,
            byType |-> <<>>]

(***************************************************************************)
(* The file systems and configurations analysed.                           *)
(***************************************************************************)
File(lines) == [exists |-> TRUE, readable |-> TRUE, lines |-> lines]
NoFile == [exists |-> FALSE, readable |-> FALSE, lines |-> <<>>]
\* a path that Deno.stat finds and Deno.readTextFile fails on
Unreadable == [exists |-> TRUE, readable |-> FALSE, lines |-> <<>>]

Stem(f) == <<f[1]>>
NextFile(f) == CASE f = FileE -> FileA [] f = FileA -> FileB [] OTHER -> FileE

\* re-export graphs over e.ts, a.ts, b.ts
GraphPool(f) ==
  {StarFrom(Rel(t)) : t \in Files \ {f}}
    \cup {StarFrom(BarePkg),
          NamedFrom(<< <<foo, NoName>> >>, Rel(Stem(NextFile(f)))),
          NamedFrom(<< <<foo, bar>> >>, Rel(Stem(NextFile(f)))),
          ExportDecl("function", foo)}

\* the file under an export *: documentation blocks and declarations
DocPool ==
  {Doc(FALSE), Doc(TRUE), DocOpen(FALSE), DocClose(FALSE), Blank, Comment, Other,
   ExportDecl("function", foo), ExportDecl("class", bar)}

\* an entry file with declarations, export blocks and imports of its own
LocalPool ==
  {BareDecl("type", Server), BareDecl("type", ServerRateLimitDescription),
   ExportDecl("type", Server), ExportDecl("type", ServerRateLimitDescription),
   Block(<< <<Server, NoName>> >>),
   Block(<< <<Server, NoName>>, <<ServerRateLimitDescription, NoName>> >>),
   Import(<< <<foo, NoName>> >>, Rel(Stem(FileA))),
   Import(<< <<foo, bar>> >>, Rel(Stem(FileA))),
   Import(<< <<foo, NoName>> >>, BarePkg),
   Block(<< <<foo, NoName>> >>), Block(<< <<bar, NoName>> >>)}

\* a file analysed by a full scan, or alone: documentation blocks, declarations
\* with and without export, and an export block
ScanPool ==
  {Doc(FALSE), Doc(TRUE), DocOpen(FALSE), DocOpen(TRUE), DocClose(FALSE), Blank,
   Comment, Other, ExportDecl("function", foo), ExportDecl("class", bar),
   BareDecl("function", foo), Block(<< <<foo, NoName>> >>)}

\* declarations of every kind; constant is a name that includes "const"
constant == <<"const", "ant">>
Keywords ==
  {"function", "async function", "class", "interface", "type", "enum", "const",
   "let", "var"}
className == <<"class", "Name">>
KindPool ==
  {ExportDecl(kw, foo) : kw \in Keywords} \cup {BareDecl(kw, foo) : kw \in Keywords}
    \cup {ExportDecl("let", constant), ExportDecl("function", constant),
          Block(<< <<foo, NoName>> >>)}
    \cup {Default("function", foo), Default("class", foo), Default("", foo),
          Default("function", NoName), Default("", className)}

\* two files that may export * from each other, around declarations of their own
CyclePool(other) ==
  {StarFrom(Rel(other)), ExportDecl("function", foo), ExportDecl("class", bar)}

InitCycle ==
  /\ \E le, la \in 0..MaxCycleLines :
       \E ce \in [1..le -> CyclePool(FileA)], ca \in [1..la -> CyclePool(FileE)] :
         fs = (FileE :> File(ce)) @@ (FileA :> File(ca)) @@ (FileB :> NoFile)
  /\ exports \in {<<FileE>>, <<FileA>>}

InitGraph ==
  \E le, la, lb \in 0..MaxGraphLines :
    /\ le + la + lb <= MaxGraphLines
    /\ \E ce \in [1..le -> GraphPool(FileE)], ca \in [1..la -> GraphPool(FileA)],
          cb \in [1..lb -> GraphPool(FileB)] :
         \/ fs = (FileE :> File(ce)) @@ (FileA :> File(ca)) @@ (FileB :> File(cb))
         \/ /\ le = 0
            /\ fs = (FileE :> NoFile) @@ (FileA :> File(ca)) @@ (FileB :> File(cb))
         \/ /\ lb = 0
            /\ \E b \in {NoFile, Unreadable} :
                 fs = (FileE :> File(ce)) @@ (FileA :> File(ca)) @@ (FileB :> b)
    /\ exports \in {<<FileE>>, <<FileE, FileA>>}

InitDoc ==
  /\ \E la \in 0..MaxDocLines : \E ca \in [1..la -> DocPool] :
       fs = (FileE :> File(<<StarFrom(Rel(FileA))>>)) @@ (FileA :> File(ca))
              @@ (FileB :> File(<<ExportDecl("const", bar)>>))
  /\ exports = <<FileE>>

InitLocal ==
  /\ \E le \in 0..MaxLocalLines : \E ce \in [1..le -> LocalPool] :
       \E a \in {File(<<ExportDecl("function", foo)>>), NoFile, Unreadable} :
         fs = (FileE :> File(ce)) @@ (FileA :> a) @@ (FileB :> NoFile)
  /\ exports = <<FileE>>

\* the target is the directory or the file e.ts; the configuration, if there
\* is one, has an exports field or none
InitScan ==
  /\ \E le \in 0..MaxScanLines : \E ce \in [1..le -> ScanPool] :
       \E b \in {NoFile, Unreadable} :
         fs = (FileE :> File(ce)) @@ (FileA :> File(<<ExportDecl("const", bar)>>))
                @@ (FileB :> b)
  /\ exports \in {<<>>, <<FileE>>}
  /\ rootIsFile \in BOOLEAN

InitKinds ==
  /\ \E le \in 0..MaxKindLines : \E ce \in [1..le -> KindPool] :
       fs = (FileE :> File(ce)) @@ (FileA :> NoFile) @@ (FileB :> NoFile)
  /\ exports \in {<<>>, <<FileE>>}
  /\ rootIsFile = FALSE

NoRequest == [op |-> "none"]
NoAnswer == <<>>

NoReport == [totalMembers |-> 0, totalExports |-> 0, totalDocumented |-> 0,
             totalUndocumented |-> 0, averagePercentage |-> 0]

InitRest ==
  /\ pc = "start"
  /\ entryIdx = 1
  /\ stack = <<>>
  /\ analyzedFiles = {}
  /\ exportMap = <<>>
  /\ symbols = <<>>
  /\ stats = NoStats
  /\ outcome = "running"
  /\ files = <<>>
  /\ previous = <<>>
  /\ workspace = <<>>
  /\ memberIdx = 1
  /\ members = <<>>
  /\ aggregate = NoReport
  /\ request = NoRequest
  /\ answer = NoAnswer

Init ==
  /\ \/ InitGraph /\ rootExists = TRUE /\ rootIsFile = FALSE
     \/ InitDoc /\ rootExists = TRUE /\ rootIsFile = FALSE
     \/ InitLocal /\ rootExists \in BOOLEAN /\ rootIsFile = FALSE
     \/ InitScan /\ rootExists = TRUE
     \/ InitKinds /\ rootExists = TRUE
     \/ InitCycle /\ rootExists = TRUE /\ rootIsFile = FALSE
  /\ InitRest

(***************************************************************************)
(* analyzeDirectory.                                                       *)
(***************************************************************************)
\* loadDenoConfig: Deno.stat(rootPath) throws when the target does not exist
StatThrows ==
  /\ pc = "start" /\ ~rootExists
  /\ pc' = "done" /\ outcome' = "threw"
  /\ UNCHANGED <<unitVars, scanVars, packVars, fs, rootExists, exports, entryIdx, stack, analyzedFiles,
                 exportMap, symbols, stats>>

\* the configuration has an exports field: analyzeFromExports
BeginFromExports ==
  /\ pc = "start" /\ rootExists /\ exports # <<>>
  /\ pc' = "trace"
  /\ UNCHANGED <<unitVars, scanVars, packVars, fs, rootExists, exports, entryIdx, stack, analyzedFiles,
                 exportMap, symbols, stats, outcome>>

\* an analyzeFromExports that takes the first value of the mapping only
exportPaths_FirstOnly(exp) == IF exp = <<>> THEN <<>> ELSE <<exp[1]>>

\* the string, or Object.values of the mapping
exportPaths(exp) == exp

\* for (const exportPath of exportPaths) await traceExportsFromFile(fullPath, ...)
TraceEntry ==
  /\ pc = "trace" /\ stack = <<>> /\ entryIdx <= Len(exportPaths(exports))
  /\ stack' = <<Frame(join(exportPaths(exports)[entryIdx]), 0, "enter")>>
  /\ entryIdx' = entryIdx + 1
  /\ UNCHANGED <<unitVars, scanVars, packVars, fs, rootExists, exports, pc, analyzedFiles, exportMap, symbols,
                 stats, outcome>>

\* traceExportsFromFile on a visited path: returns at once
EnterVisited ==
  /\ pc = "trace" /\ stack # <<>> /\ Top.at = "enter"
  /\ AlreadyAnalyzed(Top.path, analyzedFiles)
  /\ stack' = Pop
  /\ UNCHANGED <<unitVars, scanVars, packVars, fs, rootExists, exports, pc, entryIdx, analyzedFiles, exportMap,
                 symbols, stats, outcome>>

\* a traceExportsFromFile without its try / catch: a failed read aborts the run
EnterNew_Uncaught ==
  /\ pc = "trace" /\ stack # <<>> /\ Top.at = "enter"
  /\ ~AlreadyAnalyzed(Top.path, analyzedFiles)
  /\ analyzedFiles' = analyzedFiles \cup {Top.path}
  /\ IF Readable(Top.path)
     THEN stack' = SetTop(Frame(Top.path, 1, "scan")) /\ UNCHANGED <<pc, outcome>>
     ELSE stack' = <<>> /\ pc' = "done" /\ outcome' = "threw"
  /\ UNCHANGED <<unitVars, scanVars, packVars, fs, rootExists, exports, entryIdx, exportMap,
                 symbols, stats>>

\* traceExportsFromFile on a new path: visited first, then read; a failed read
\* is caught and the call returns
EnterNew ==
  /\ pc = "trace" /\ stack # <<>> /\ Top.at = "enter"
  /\ ~AlreadyAnalyzed(Top.path, analyzedFiles)
  /\ analyzedFiles' = analyzedFiles \cup {Top.path}
  /\ stack' = IF Readable(Top.path) THEN SetTop(Frame(Top.path, 1, "scan")) ELSE Pop
  /\ UNCHANGED <<unitVars, scanVars, packVars, fs, rootExists, exports, pc, entryIdx, exportMap, symbols, stats,
                 outcome>>

\* a line that is an export * from a resolved module: the recursive call
ScanStar ==
  /\ pc = "trace" /\ stack # <<>> /\ Top.at = "scan"
  /\ Top.i <= Len(Lines(Top.path))
  /\ IsResolvedStar(Top.path, Top.i)
  /\ Len(stack) < MaxStack
  /\ stack' = Append(SetTop(Frame(Top.path, Top.i, "copy")),
                     Frame(resolveImportPath(Lines(Top.path)[Top.i].spec), 0, "enter"))
  /\ UNCHANGED <<unitVars, scanVars, packVars, fs, rootExists, exports, pc, entryIdx, analyzedFiles, exportMap,
                 symbols, stats, outcome>>

\* after the recursive call: copy all exports of that file into this file's bucket
CopyStar ==
  /\ pc = "trace" /\ stack # <<>> /\ Top.at = "copy"
  /\ LET resolvedPath == resolveImportPath(Lines(Top.path)[Top.i].spec)
     IN exportMap' = AddAll(exportMap, Top.path, Bucket(exportMap, resolvedPath), 1)
  /\ stack' = SetTop(Frame(Top.path, Top.i + 1, "scan"))
  /\ UNCHANGED <<unitVars, scanVars, packVars, fs, rootExists, exports, pc, entryIdx, analyzedFiles, symbols,
                 stats, outcome>>

\* any other line
ScanLine ==
  /\ pc = "trace" /\ stack # <<>> /\ Top.at = "scan"
  /\ Top.i <= Len(Lines(Top.path))
  /\ ~IsResolvedStar(Top.path, Top.i)
  /\ exportMap' = TraceLine(exportMap, Top.path, Top.i)
  /\ stack' = SetTop(Frame(Top.path, Top.i + 1, "scan"))
  /\ UNCHANGED <<unitVars, scanVars, packVars, fs, rootExists, exports, pc, entryIdx, analyzedFiles, symbols,
                 stats, outcome>>

\* past the last line: traceExportsFromFile returns
TraceReturn ==
  /\ pc = "trace" /\ stack # <<>> /\ Top.at = "scan"
  /\ Top.i > Len(Lines(Top.path))
  /\ stack' = Pop
  /\ UNCHANGED <<unitVars, scanVars, packVars, fs, rootExists, exports, pc, entryIdx, analyzedFiles, exportMap,
                 symbols, stats, outcome>>

\* analyzeFromExports, after the loop: the symbols of the unique exports
AnalyzeJSDoc ==
  /\ pc = "trace" /\ stack = <<>> /\ entryIdx > Len(exportPaths(exports))
  /\ symbols' = symbols \o analyzeFileForJSDoc(uniqueExports(exportMap))
  /\ pc' = "stats"
  /\ UNCHANGED <<unitVars, scanVars, packVars, fs, rootExists, exports, entryIdx, stack, analyzedFiles,
                 exportMap, stats, outcome>>

\* const stats = calculateStats(symbols); return { ..., symbols, stats }
CalculateStats ==
  /\ pc = "stats"
  /\ stats' = calculateStats(symbols)
  /\ pc' = "done" /\ outcome' = "returned"
  /\ UNCHANGED <<unitVars, scanVars, packVars, fs, rootExists, exports, entryIdx, stack, analyzedFiles,
                 exportMap, symbols>>

\* no exports field, or no configuration: analyzeAllFiles, findSourceFiles
BeginAllFiles ==
  /\ pc = "start" /\ rootExists /\ exports = <<>>
  /\ files' \in findSourceFiles
  /\ pc' = "scan"
  /\ UNCHANGED <<unitVars, packVars, fs, rootExists, exports, entryIdx, stack, analyzedFiles,
                 exportMap, symbols, stats, outcome, rootIsFile, previous>>

\* for (const file of files) await analyzeFile(file, symbols, rootPath): a
\* failed read is not caught
AnalyzeFile ==
  /\ pc = "scan" /\ files # <<>>
  /\ IF Readable(Head(files))
     THEN /\ symbols' = symbols \o analyzeFile(Head(files))
          /\ files' = Tail(files)
          /\ UNCHANGED <<pc, outcome>>
     ELSE /\ pc' = "done" /\ outcome' = "threw"
          /\ UNCHANGED <<symbols, files>>
  /\ UNCHANGED <<unitVars, packVars, fs, rootExists, exports, entryIdx, stack, analyzedFiles,
                 exportMap, stats, rootIsFile, previous>>

\* analyzeAllFiles returns
AllFilesAnalyzed ==
  /\ pc = "scan" /\ files = <<>>
  /\ pc' = "stats"
  /\ UNCHANGED <<unitVars, scanVars, packVars, fs, rootExists, exports, entryIdx, stack,
                 analyzedFiles, exportMap, symbols, stats, outcome>>

Next ==
  \/ StatThrows \/ BeginFromExports \/ TraceEntry \/ EnterVisited \/ EnterNew
  \/ ScanStar \/ CopyStar \/ ScanLine \/ TraceReturn \/ AnalyzeJSDoc
  \/ BeginAllFiles \/ AnalyzeFile \/ AllFilesAnalyzed
  \/ CalculateStats

Spec == Init /\ [][Next]_vars


(***************************************************************************)
(* What the claims speak of.                                               *)
(***************************************************************************)
Returned == pc = "done" /\ outcome = "returned"
PublicApiMode == exports # <<>>
FullScanMode == exports = <<>>
EntryFiles == {join(exports[n]) : n \in 1..Len(exports)}
SymbolAt(name, file, line) ==
  {n \in 1..Len(symbols) :
     symbols[n].name = name /\ symbols[n].file = file /\ symbols[n].line = line}

\* The names a module makes public, by the meaning of its export statements,
\* each with the file and line of the direct export declaration it comes from:
\* <<public name, originating file, declaration line>>, following chains of
\* up to depth files.
RECURSIVE PublicNames(_, _)
LocalBinding(item) == IF item[2] = NoName THEN item[1] ELSE item[2]
LinePublicNames(f, i, depth) ==
  LET line == Lines(f)[i]
      target == resolveImportPath(line.spec)
  IN CASE line.k = "export" -> {<<line.name, f, i>>}
       [] line.k = "star" /\ target # NoPath -> PublicNames(target, depth - 1)
       [] line.k = "named" /\ target # NoPath ->
            UNION {{<<ExportedName(line.items[n]), o[2], o[3]>> :
                      o \in {x \in PublicNames(target, depth - 1) :
                               x[1] = OriginalName(line.items[n])}} :
                   n \in 1..Len(line.items)}
       [] line.k = "block" ->
            UNION {UNION {UNION {{<<ExportedName(line.items[n]), o[2], o[3]>> :
                                    o \in {x \in PublicNames(
                                                   resolveImportPath(Lines(f)[j].spec),
                                                   depth - 1) :
                                             x[1] = Lines(f)[j].items[m][1]}} :
                                 m \in {m \in 1..Len(Lines(f)[j].items) :
                                          LocalBinding(Lines(f)[j].items[m])
                                            = OriginalName(line.items[n])}} :
                          j \in {j \in 1..Len(Lines(f)) : Lines(f)[j].k = "import"}} :
                   n \in 1..Len(line.items)}
       [] OTHER -> {}
PublicNames(f, depth) ==
  IF depth = 0 \/ f = NoPath \/ ~Readable(f) THEN {}
  ELSE UNION {LinePublicNames(f, i, depth) : i \in 1..Len(Lines(f))}

ChainDepth == Cardinality(Files)

\* C1: every name an entry file makes public through a chain of re-exports
\* (export * from, export { a } from, export { a as b } from, export { a } of
\* an imported name or import alias) that starts at a direct export declaration
\* of a resolvable file is reported as one symbol of that name, located in the
\* originating file at the declaration's line.
C1_TracingComplete ==
  Returned =>
    \A e \in EntryFiles : \A o \in PublicNames(e, ChainDepth) :
      Cardinality(SymbolAt(o[1], o[2], o[3])) = 1

\* C2: the result holds at most one symbol per (source file, originally
\* declared name, exported name), so that a declaration reached through two
\* re-export chains yields one symbol.
C2_OneSymbolPerTriple ==
  (Returned /\ PublicApiMode) =>
    \A m, n \in 1..Len(symbols) :
      (/\ symbols[m].file = symbols[n].file
       /\ symbols[m].originalName = symbols[n].originalName
       /\ symbols[m].name = symbols[n].name) => m = n

\* C3: export { foo as bar } from "./m" in a traced file yields a symbol named
\* bar whose file is m and whose line is the line of foo's declaration in m.
ExportLinesOf(f, name) ==
  {l \in 1..Len(Lines(f)) : Lines(f)[l].k = "export" /\ Lines(f)[l].name = name}
C3_RenameFidelity ==
  Returned =>
    \A f \in {g \in analyzedFiles : Readable(g)} : \A i \in 1..Len(Lines(f)) :
      LET line == Lines(f)[i]
          m == resolveImportPath(line.spec)
      IN (line.k = "named" /\ m # NoPath /\ Readable(m)) =>
           \A n \in 1..Len(line.items) :
             line.items[n][2] # NoName =>
               \A l \in ExportLinesOf(m, line.items[n][1]) :
                 SymbolAt(line.items[n][2], m, l) # {}


(***************************************************************************)
(* Termination, by a rank: the steps still to come are bounded by the      *)
(* lines of the files not yet visited, the lines left in the frames of the *)
(* call stack, the entries left and the phases left.                       *)
(***************************************************************************)
StarTargets(f) ==
  IF Readable(f)
  THEN {resolveImportPath(Lines(f)[i].spec) :
          i \in {j \in 1..Len(Lines(f)) : Lines(f)[j].k = "star"}} \ {NoPath}
  ELSE {}

LinesLeft(f, i) == (IF Readable(f) THEN Len(Lines(f)) ELSE 0) + 1 - i
FileRank(f) == 2 + 3 * LinesLeft(f, 1)
FrameRank(fr) ==
  CASE fr.at = "enter" -> 1
    [] fr.at = "scan" -> 1 + 3 * LinesLeft(fr.path, fr.i)
    [] OTHER -> 3 * LinesLeft(fr.path, fr.i) - 1
RECURSIVE SumFileRank(_)
SumFileRank(S) ==
  IF S = {} THEN 0
  ELSE LET f == CHOOSE x \in S : TRUE IN FileRank(f) + SumFileRank(S \ {f})
RECURSIVE SumFrameRank(_)
SumFrameRank(n) == IF n = 0 THEN 0 ELSE FrameRank(stack[n]) + SumFrameRank(n - 1)
PhaseRank ==
  CASE pc = "start" -> 4 + Cardinality(Files)
    [] pc = "trace" -> 2
    [] pc = "scan" -> 2 + Len(files)
    [] pc = "stats" -> 1
    [] OTHER -> 0
Rank ==
  PhaseRank + 2 * (Len(exportPaths(exports)) + 1 - entryIdx)
    + SumFrameRank(Len(stack)) + SumFileRank(Files \ analyzedFiles)

\* a step of traceExportsFromFile or of analyzeDirectory can be taken
CanStep ==
  \/ pc = "start"
  \/ pc = "stats"
  \/ pc = "scan"
  \/ pc = "trace" /\ stack = <<>>
  \/ /\ pc = "trace" /\ stack # <<>>
     /\ \/ Top.at \in {"enter", "copy"}
        \/ Top.at = "scan" /\ Top.i > Len(Lines(Top.path))
        \/ Top.at = "scan" /\ ~IsResolvedStar(Top.path, Top.i)
        \/ Top.at = "scan" /\ Len(stack) < MaxStack
Progress == pc = "done" \/ CanStep

\* C4: whatever the files hold, cycles of export * included, the analysis
\* terminates: every step lowers a rank that is never negative, and a step can
\* be taken until analyzeDirectory has come to its end.
C4_TracingTerminates ==
  [][Rank' < Rank /\ Rank' >= 0 /\ Progress /\ Progress']_vars

C4_CycleTraced ==
  /\ Returned
  /\ \E f, g \in analyzedFiles : f # g /\ g \in StarTargets(f) /\ f \in StarTargets(g)

\* the files a file names in a re-export or import statement
Refers(f) ==
  IF Readable(f)
  THEN {resolveImportPath(Lines(f)[i].spec) :
          i \in {j \in 1..Len(Lines(f)) : Lines(f)[j].k \in {"star", "named", "import"}}}
         \ {NoPath}
  ELSE {}
RECURSIVE ReachableFrom(_, _)
ReachableFrom(S, n) ==
  IF n = 0 THEN S ELSE ReachableFrom(S \cup UNION {Refers(f) : f \in S}, n - 1)
Reachable == ReachableFrom(EntryFiles, Cardinality(Files))

\* C5: with an exports field every listed entry path is traced, and every
\* reported symbol comes from a file reachable from an entry through re-export
\* or import statements.
C5_OnlyReachableFromEntries ==
  (Returned /\ PublicApiMode) =>
    /\ EntryFiles \subseteq analyzedFiles
    /\ \A n \in 1..Len(symbols) : symbols[n].file \in Reachable

C5_UnrelatedFileLeftOut ==
  /\ Returned /\ Len(exports) = 2 /\ symbols # <<>>
  /\ \E f \in Files \ Reachable :
       Readable(f) /\ \E i \in 1..Len(Lines(f)) : Lines(f)[i].k = "export"

(***************************************************************************)
(* calculateStats alone, on lists of up to MaxSymbols symbols.             *)
(***************************************************************************)
StatSymbol(n, documented) ==
  [name |-> foo, type |-> IF n % 2 = 0 THEN "class" ELSE "function",
   file |-> FileE, line |-> n, hasJSDoc |-> documented, exportType |-> "named",
   originalName |-> foo]

InitStats ==
  /\ \E d, u \in 0..MaxSymbols :
       /\ d + u <= MaxSymbols
       /\ symbols = [n \in 1..(d + u) |-> StatSymbol(n, n <= d)]
  /\ fs = (FileE :> NoFile) @@ (FileA :> NoFile) @@ (FileB :> NoFile)
  /\ rootExists = TRUE
  /\ exports = <<>>
  /\ pc = "stats"
  /\ entryIdx = 1
  /\ stack = <<>>
  /\ analyzedFiles = {}
  /\ exportMap = <<>>
  /\ stats = NoStats
  /\ outcome = "running"
  /\ rootIsFile = FALSE
  /\ files = <<>>
  /\ previous = <<>>
  /\ workspace = <<>>
  /\ memberIdx = 1
  /\ members = <<>>
  /\ aggregate = NoReport
  /\ request = NoRequest
  /\ answer = NoAnswer

NextStats == CalculateStats

SpecStats == InitStats /\ [][NextStats]_vars

\* C6, as claimed: total = number of symbols, documented + undocumented =
\* total, 0 <= percentage <= 100, and percentage = 100 exactly when total = 0
\* or documented = total.
C6_StatsAsClaimed ==
  Returned =>
    /\ stats.total = Len(symbols)
    /\ stats.documented + stats.undocumented = stats.total
    /\ 0 <= stats.percentage /\ stats.percentage <= 100
    /\ stats.percentage = 100 <=> (stats.total = 0 \/ stats.documented = stats.total)

\* C6, amended: total = number of symbols, documented + undocumented = total,
\* 0 <= percentage <= 100, percentage = 100 when total = 0, otherwise
\* percentage is an integer nearest to documented / total * 100; so
\* percentage = 100 whenever documented = total, and percentage = 100 only if
\* total = 0 or documented / total >= 0.995.
C6_Stats ==
  Returned =>
    /\ stats.total = Len(symbols)
    /\ stats.documented + stats.undocumented = stats.total
    /\ 0 <= stats.percentage /\ stats.percentage <= 100
    /\ stats.total = 0 => stats.percentage = 100
    /\ stats.total > 0 =>
         LET diff == stats.percentage * stats.total - 100 * stats.documented
         IN 2 * diff <= stats.total /\ 2 * diff >= -stats.total
    /\ stats.documented = stats.total => stats.percentage = 100
    /\ stats.percentage = 100 =>
         (stats.total = 0 \/ 200 * stats.documented >= 199 * stats.total)

C6_RoundedUpToHundred ==
  /\ Returned
  /\ stats.total > 0 /\ stats.documented < stats.total /\ stats.percentage = 100

(***************************************************************************)
(* Documentation, by the meaning of the source text: the nearest line      *)
(* before l that is neither blank nor a // comment closes a documentation  *)
(* block that does not include "@module".                                  *)
(***************************************************************************)
ClosesSymbolDoc(lines, p) ==
  \/ lines[p].k = "doc" /\ ~lines[p].mod
  \/ /\ lines[p].k = "docclose"
     /\ \E o \in 1..(p - 1) :
          /\ lines[o].k = "docopen"
          /\ \A q \in (o + 1)..(p - 1) : lines[q].k \notin {"doc", "docopen", "docclose"}
          /\ \A q \in o..p : ~lines[q].mod

ImmediatelyDocumented(lines, l) ==
  \E p \in 1..(l - 1) :
    /\ \A q \in (p + 1)..(l - 1) : SkipsOver(lines[q])
    /\ ~SkipsOver(lines[p])
    /\ ClosesSymbolDoc(lines, p)

SymbolsOfLine(file, line) ==
  {n \in 1..Len(symbols) : symbols[n].file = file /\ symbols[n].line = line}

\* C7: for an entry doing export * from a target, every direct export
\* declaration of the target appears exactly once, with file = the target, and
\* hasJSDoc true iff a non-module documentation block immediately precedes it
\* (blank lines and // comments ignored).
C7_StarTargetDocFlags ==
  Returned =>
    \A e \in EntryFiles : \A t \in StarTargets(e) :
      Readable(t) =>
        \A l \in {i \in 1..Len(Lines(t)) : Lines(t)[i].k = "export"} :
          /\ Cardinality(SymbolsOfLine(t, l)) = 1
          /\ \A n \in SymbolsOfLine(t, l) :
               symbols[n].hasJSDoc <=> ImmediatelyDocumented(Lines(t), l)

\* C8: in a file declaring Server and ServerRateLimitDescription, with or
\* without the export keyword, a lookup for either name finds its own
\* declaration line, every symbol of that name is at that line, and a name the
\* file makes public yields exactly one symbol.
DeclarationLines(f, name) ==
  {l \in 1..Len(Lines(f)) : Lines(f)[l].k \in {"export", "bare"} /\ Lines(f)[l].name = name}
MadePublic(f, name) ==
  \E l \in 1..Len(Lines(f)) :
    \/ Lines(f)[l].k = "export" /\ Lines(f)[l].name = name
    \/ /\ Lines(f)[l].k = "block"
       /\ \E n \in 1..Len(Lines(f)[l].items) : Lines(f)[l].items[n][1] = name
SymbolsNamed(f, name) ==
  {n \in 1..Len(symbols) : symbols[n].file = f /\ symbols[n].name = name}
C8_WordBoundary ==
  Returned =>
    \A e \in {f \in EntryFiles : Readable(f)} :
      (/\ Cardinality(DeclarationLines(e, Server)) = 1
       /\ Cardinality(DeclarationLines(e, ServerRateLimitDescription)) = 1) =>
        \A name \in {Server, ServerRateLimitDescription} :
          /\ findSymbolInFile(e, name) \in DeclarationLines(e, name)
          /\ \A n \in SymbolsNamed(e, name) :
               symbols[n].line \in DeclarationLines(e, name)
          /\ MadePublic(e, name) => Cardinality(SymbolsNamed(e, name)) = 1

\* C9: when the entry file named by the exports field cannot be read,
\* analyzeDirectory fails with an error instead of returning a result.
C9_UnreadableEntryThrows ==
  (pc = "done" /\ rootExists /\ \E e \in EntryFiles : ~Readable(e)) => outcome = "threw"

\* C10: a re-exported name with no locatable declaration in the resolved
\* source file is kept with the re-export statement's own line, and a symbol
\* of that name appears in the result.
ReexportLines(originalName, exportedName) ==
  {i \in 1..MaxGraphLines + MaxDocLines + MaxLocalLines :
     \E f \in {g \in analyzedFiles : Readable(g)} :
       /\ i <= Len(Lines(f))
       /\ Lines(f)[i].k \in {"named", "block"}
       /\ \E n \in 1..Len(Lines(f)[i].items) :
            /\ OriginalName(Lines(f)[i].items[n]) = originalName
            /\ ExportedName(Lines(f)[i].items[n]) = exportedName}
C10_FallbackKeepsSymbol ==
  Returned =>
    \A b \in 1..Len(exportMap) : \A n \in 1..Len(exportMap[b].exps) :
      LET exp == exportMap[b].exps[n]
      IN findSymbolInFile(exp.sourcePath, exp.originalName) = 0 =>
           /\ exp.line \in ReexportLines(exp.originalName, exp.exportedName)
           /\ \E m \in 1..Len(symbols) : symbols[m].name = exp.exportedName

(***************************************************************************)
(* A second run, after the statements that name a missing or unreadable    *)
(* file have been taken out of the source files (each replaced by an empty *)
(* line, so that every other line keeps its number).                       *)
(***************************************************************************)
FailingSpec(spec) ==
  /\ spec.rel
  /\ resolveImportPath(spec) = NoPath \/ ~Readable(resolveImportPath(spec))

\* the import line findImportSource stops at, 0 if there is none
RECURSIVE ImportLineFrom(_, _, _)
ImportLineFrom(lines, symbolName, i) ==
  IF i > Len(lines) THEN 0
  ELSE IF ImportsName(lines[i], symbolName) THEN i
       ELSE ImportLineFrom(lines, symbolName, i + 1)

FailingLine(f, i) ==
  LET line == Lines(f)[i] IN
  \/ line.k \in {"star", "named"} /\ FailingSpec(line.spec)
  \/ /\ line.k = "block" /\ line.items # <<>>
     /\ \A n \in 1..Len(line.items) :
          LET j == ImportLineFrom(Lines(f), OriginalName(line.items[n]), 1)
          IN j # 0 /\ FailingSpec(Lines(f)[j].spec)

WithoutFailing(f) ==
  IF Readable(f)
  THEN [fs[f] EXCEPT !.lines = [i \in 1..Len(Lines(f)) |->
                                  IF FailingLine(f, i) THEN Blank ELSE Lines(f)[i]]]
  ELSE fs[f]

Rerun ==
  /\ Returned /\ PublicApiMode /\ previous = <<>>
  /\ \E f \in Files : Readable(f) /\ \E i \in 1..Len(Lines(f)) : FailingLine(f, i)
  /\ fs' = [f \in DOMAIN fs |-> WithoutFailing(f)]
  /\ previous' = <<symbols>>
  /\ pc' = "start" /\ outcome' = "running"
  /\ entryIdx' = 1 /\ stack' = <<>> /\ analyzedFiles' = {} /\ exportMap' = <<>>
  /\ symbols' = <<>> /\ stats' = NoStats
  /\ UNCHANGED <<unitVars, packVars, rootExists, exports, rootIsFile, files>>

NextRerun == Next \/ Rerun

SpecRerun == Init /\ [][NextRerun]_vars

C12_NoDuplicateNames ==
  (Returned /\ PublicApiMode) =>
    \A m, n \in 1..Len(symbols) : symbols[m].name = symbols[n].name => m = n

\* C13: in public-API mode, for a block export without a from clause whose
\* names are declared in the same file without the export keyword (each once,
\* none of them imported), the result holds exactly one symbol per listed
\* name, with the kind of its declaration and at its declaration line.
BlockOfLocalNames(f, i) ==
  /\ Lines(f)[i].k = "block"
  /\ \A n \in 1..Len(Lines(f)[i].items) :
       LET name == OriginalName(Lines(f)[i].items[n])
       IN /\ Cardinality(DeclarationLines(f, name)) = 1
          /\ \A l \in DeclarationLines(f, name) : Lines(f)[l].k = "bare"
          /\ \A l \in 1..Len(Lines(f)) : ~ImportsName(Lines(f)[l], name)
C13_BlockExportKinds ==
  (Returned /\ PublicApiMode) =>
    \A e \in {f \in EntryFiles : Readable(f)} : \A i \in 1..Len(Lines(e)) :
      BlockOfLocalNames(e, i) =>
        \A n \in 1..Len(Lines(e)[i].items) :
          LET item == Lines(e)[i].items[n]
              l == CHOOSE l \in DeclarationLines(e, OriginalName(item)) : TRUE
          IN /\ Cardinality(SymbolsNamed(e, ExportedName(item))) = 1
             /\ \A m \in SymbolsNamed(e, ExportedName(item)) :
                  /\ symbols[m].line = l
                  /\ symbols[m].type = TypeOfKeyword(Lines(e)[l].kw)

\* C14: a documentation block that includes @module never counts as symbol
\* documentation: in either mode, a declaration whose only preceding
\* documentation blocks are module-level blocks is reported with
\* hasJSDoc = false.
OnlyModuleDocsBefore(lines, l) ==
  /\ \E p \in 1..(l - 1) : lines[p].k \in {"doc", "docopen"}
  /\ \A p \in 1..(l - 1) : lines[p].k \in {"doc", "docopen"} => lines[p].mod
ModuleDocNeverCounts(n) ==
  (/\ Readable(symbols[n].file)
   /\ OnlyModuleDocsBefore(Lines(symbols[n].file), symbols[n].line))
    => ~symbols[n].hasJSDoc
C14_ModuleDocDiscarded ==
  Returned => \A n \in 1..Len(symbols) : ModuleDocNeverCounts(n)

(***************************************************************************)
(* Full scan, by the meaning of the source text.  A closing line closes a   *)
(* documentation block when one is open, and a plain comment otherwise.    *)
(***************************************************************************)
InsideDoc(lines, l) ==
  \E o \in 1..(l - 1) :
    /\ lines[o].k = "docopen"
    /\ \A q \in (o + 1)..(l - 1) : lines[q].k # "docclose"
DocumentedLine(lines, l) ==
  \E p \in 1..(l - 1) :
    /\ \A q \in (p + 1)..(l - 1) : SkipsOver(lines[q])
    /\ lines[p].k = "doc" \/ (lines[p].k = "docclose" /\ InsideDoc(lines, p))
ScannedFiles ==
  IF rootIsFile THEN {TargetFile} ELSE {f \in Files : Exists(f)}
ExportDeclarations ==
  {d \in ScannedFiles \X (1..MaxScanLines + MaxKindLines + MaxGraphLines
                                  + MaxLocalLines + MaxDocLines) :
     d[2] <= Len(Lines(d[1])) /\ Lines(d[1])[d[2]].k = "export"}
OnlyDeclarationsExported ==
  \A f \in ScannedFiles : \A l \in 1..Len(Lines(f)) :
    Lines(f)[l].k \notin {"block", "default"}

\* C15: in full-scan mode every single-line direct export declaration of a
\* scanned file yields exactly one symbol at that line, with
\* hasJSDoc true iff the nearest preceding line that is neither blank nor a
\* // comment closes a documentation block; with no other export in the
\* files, total is the number of declarations, documented the number of those
\* so preceded, percentage 0 when none is and 100 when all are.
C15_FullScanDeclarations ==
  (Returned /\ FullScanMode) =>
    /\ \A d \in ExportDeclarations :
         /\ Cardinality(SymbolsOfLine(d[1], d[2])) = 1
         /\ \A n \in SymbolsOfLine(d[1], d[2]) :
              symbols[n].hasJSDoc <=> DocumentedLine(Lines(d[1]), d[2])
    /\ OnlyDeclarationsExported =>
         LET documented == {d \in ExportDeclarations : DocumentedLine(Lines(d[1]), d[2])}
         IN /\ stats.total = Cardinality(ExportDeclarations)
            /\ stats.documented = Cardinality(documented)
            /\ stats.undocumented = stats.total - stats.documented
            /\ (stats.total > 0 /\ documented = {}) => stats.percentage = 0
            /\ documented = ExportDeclarations => stats.percentage = 100

C15_DocumentedAcrossBlankLine ==
  /\ Returned /\ FullScanMode
  /\ Len(symbols) = 2 /\ symbols[1].hasJSDoc /\ ~symbols[2].hasJSDoc
  /\ Lines(TargetFile)[symbols[1].line - 1].k \in {"blank", "comment"}

\* C16: when the target path is a single source file, the result holds one
\* symbol per export declaration of that file, whether the parent directory
\* holds a configuration or not, with an exports field or without.
C16_SingleFileTarget ==
  (Returned /\ rootIsFile) =>
    \A l \in 1..Len(Lines(TargetFile)) :
      Lines(TargetFile)[l].k = "export" =>
        Cardinality(SymbolsOfLine(TargetFile, l)) = 1

\* C17: the kind of a direct export line follows its leading token only:
\* export function / export async function -> function, export class ->
\* class, export interface -> interface, export type -> type, export enum ->
\* enum, export const -> const, export let / export var -> variable; and
\* stats.byType[k].total is the number of reported symbols of kind k.
KindOfToken(kw) ==
  CASE kw = "function" -> "function"
    [] kw = "async function" -> "function"
    [] kw = "class" -> "class"
    [] kw = "interface" -> "interface"
    [] kw = "type" -> "type"
    [] kw = "enum" -> "enum"
    [] kw = "const" -> "const"
    [] kw = "let" -> "variable"
    [] kw = "var" -> "variable"
SymbolsOfKind(k) == {n \in 1..Len(symbols) : symbols[n].type = k}
C17_KindFollowsLeadingToken ==
  Returned =>
    /\ \A n \in 1..Len(symbols) :
         LET f == symbols[n].file
             l == symbols[n].line
         IN (Readable(f) /\ Lines(f)[l].k = "export") =>
              symbols[n].type = KindOfToken(Lines(f)[l].kw)
    /\ DOMAIN stats.byType = {symbols[n].type : n \in 1..Len(symbols)}
    /\ \A k \in DOMAIN stats.byType :
         stats.byType[k].total = Cardinality(SymbolsOfKind(k))

(***************************************************************************)
(* WorkspaceAnalyzer.analyze (workspace.ts, kept as src/unnamed/part_004), *)
(* from the point where the configuration has been loaded and lists its    *)
(* members.  A member is [name, fails, syms]: analyzeDirectory on its path *)
(* throws, or returns the stats of its symbols.                            *)
(***************************************************************************)
MemberSymbols(documented, undocumented) ==
  [n \in 1..(documented + undocumented) |-> StatSymbol(n, n <= documented)]

Member(name, fails, syms) == [name |-> name, fails |-> fails, syms |-> syms]

MemberStats(total, documented, undocumented, percentage) ==
  [total |-> total, documented |-> documented, undocumented |-> undocumented,
   percentage |-> percentage]

\* analyzeMember: the result of analyzeDirectory, copied field by field
analyzeMember(member) ==
  LET result == calculateStats(member.syms)
  IN [name |-> member.name, failed |-> FALSE,
      stats |-> MemberStats(result.total, result.documented, result.undocumented,
                            result.percentage)]

\* an analyze that leaves a failed member out of the report
FailedMember_Dropped(member) == <<>>

\* catch (error): the failed member, with zero stats
FailedMember(member) ==
  <<[name |-> member.name, failed |-> TRUE, stats |-> MemberStats(0, 0, 0, 0)]>>

\* members.reduce((sum, m) => sum + m.stats[field], 0)
RECURSIVE Reduce(_, _, _)
Reduce(list, field, n) ==
  IF n > Len(list) THEN 0 ELSE list[n].stats[field] + Reduce(list, field, n + 1)

calculateAggregate(list) ==
  LET totalExports == Reduce(list, "total", 1)
      totalDocumented == Reduce(list, "documented", 1)
  IN [totalMembers |-> Len(list),
      totalExports |-> totalExports,
      totalDocumented |-> totalDocumented,
      totalUndocumented |-> Reduce(list, "undocumented", 1),
      averagePercentage |-> IF totalExports > 0
                            THEN MathRoundPercent(totalDocumented, totalExports)
                            ELSE 0]

MemberPool ==
  {Member(name, TRUE, <<>>) : name \in {"a", "b"}}
    \cup {Member(name, FALSE, MemberSymbols(c[1], c[2])) :
            name \in {"a", "b"},
            c \in {x \in (0..MaxMemberSymbols) \X (0..MaxMemberSymbols) :
                     x[1] + x[2] <= MaxMemberSymbols}}

InitPack ==
  /\ \E k \in 0..MaxMembers : workspace \in [1..k -> MemberPool]
  /\ pc = "pack"
  /\ memberIdx = 1
  /\ members = <<>>
  /\ aggregate = NoReport
  /\ request = NoRequest
  /\ answer = NoAnswer
  /\ fs = (FileE :> NoFile) @@ (FileA :> NoFile) @@ (FileB :> NoFile)
  /\ rootExists = TRUE
  /\ rootIsFile = FALSE
  /\ exports = <<>>
  /\ entryIdx = 1
  /\ stack = <<>>
  /\ analyzedFiles = {}
  /\ exportMap = <<>>
  /\ symbols = <<>>
  /\ stats = NoStats
  /\ outcome = "running"
  /\ files = <<>>
  /\ previous = <<>>

\* for (const memberPath of workspace) try { members.push(await analyzeMember) }
\* catch { members.push(zero stats) }
AnalyzeMember ==
  /\ pc = "pack" /\ memberIdx <= Len(workspace)
  /\ LET member == workspace[memberIdx]
     IN members' = members \o (IF member.fails THEN FailedMember(member)
                                ELSE <<analyzeMember(member)>>)
  /\ memberIdx' = memberIdx + 1
  /\ UNCHANGED <<unitVars, scanVars, fs, rootExists, exports, pc, entryIdx, stack,
                 analyzedFiles, exportMap, symbols, stats, outcome, workspace,
                 aggregate>>

\* const aggregate = this.calculateAggregate(members); return report
ReturnReport ==
  /\ pc = "pack" /\ memberIdx > Len(workspace)
  /\ aggregate' = calculateAggregate(members)
  /\ pc' = "done" /\ outcome' = "returned"
  /\ UNCHANGED <<unitVars, scanVars, fs, rootExists, exports, entryIdx, stack, analyzedFiles,
                 exportMap, symbols, stats, workspace, memberIdx, members>>

NextPack == AnalyzeMember \/ ReturnReport

SpecPack == InitPack /\ [][NextPack]_vars

\* C18: the report holds one member record per listed member, in listed
\* order; a member whose analysis throws is recorded with total = documented
\* = undocumented = 0 and the members after it are analysed all the same; the
\* aggregate totals are the sums over the member records, and totalDocumented
\* + totalUndocumented = totalExports.
RECURSIVE SumOfField(_, _)
SumOfField(n, field) ==
  IF n = 0 THEN 0 ELSE members[n].stats[field] + SumOfField(n - 1, field)
C18_OneRecordPerMember ==
  Returned =>
    /\ Len(members) = Len(workspace)
    /\ \A n \in 1..Len(workspace) :
         /\ n <= Len(members) => members[n].name = workspace[n].name
         /\ (n <= Len(members) /\ workspace[n].fails) =>
              /\ members[n].stats.total = 0
              /\ members[n].stats.documented = 0
              /\ members[n].stats.undocumented = 0
         /\ (n <= Len(members) /\ ~workspace[n].fails) =>
              /\ members[n].stats.total = Len(workspace[n].syms)
              /\ members[n].stats.documented =
                   Cardinality({i \in 1..Len(workspace[n].syms) :
                                  workspace[n].syms[i].hasJSDoc})
    /\ aggregate.totalMembers = Len(members)
    /\ aggregate.totalExports = SumOfField(Len(members), "total")
    /\ aggregate.totalDocumented = SumOfField(Len(members), "documented")
    /\ aggregate.totalUndocumented = SumOfField(Len(members), "undocumented")
    /\ aggregate.totalDocumented + aggregate.totalUndocumented = aggregate.totalExports

C18_AnalysedAfterFailure ==
  /\ Returned /\ Len(workspace) = 3
  /\ workspace[1].fails /\ ~workspace[2].fails /\ workspace[3].fails
  /\ members[2].stats.documented > 0 /\ members[2].stats.undocumented > 0

(***************************************************************************)
(* Steps of traceExportsFromFile.                                          *)
(***************************************************************************)
Tracing == pc = "trace" /\ stack # <<>>
Entries(exps) == {exps[n] : n \in 1..Len(exps)}
StarTarget(frame) == resolveImportPath(Lines(frame.path)[frame.i].spec)

\* C19: on export * from target in file F, the recursive trace of target has
\* returned before anything is copied into F's bucket; the copy leaves in F's
\* bucket, for every entry then in target's bucket, an entry with the same
\* exportedName and sourcePath, and what it adds are entries of target's
\* bucket, with originalName, exportedName, sourcePath and line unchanged.
WaitingUnchanged ==
  \A k \in 1..(Len(stack) - 1) :
    stack[k].at = "copy" =>
      Bucket(exportMap', stack[k].path) = Bucket(exportMap, stack[k].path)
CopiedFaithfully ==
  LET target == StarTarget(Top)
      before == Bucket(exportMap, Top.path)
      after == Bucket(exportMap', Top.path)
      source == Bucket(exportMap, target)
  IN /\ target \in analyzedFiles
     /\ \A k \in 1..Len(stack) : stack[k].at # "enter"
     /\ \A x \in Entries(source) : \E y \in Entries(after) :
          y.exportedName = x.exportedName /\ y.sourcePath = x.sourcePath
     /\ Len(before) <= Len(after) /\ SubSeq(after, 1, Len(before)) = before
     /\ \A n \in (Len(before) + 1)..Len(after) : after[n] \in Entries(source)
C19_StarCopiesAfterTrace ==
  [][Tracing => /\ WaitingUnchanged
                /\ Top.at = "copy" => CopiedFaithfully]_vars

C19_TwoExportsCopied ==
  /\ Tracing /\ Top.at = "scan" /\ Top.i > 1
  /\ IsResolvedStar(Top.path, Top.i - 1)
  /\ LET target == resolveImportPath(Lines(Top.path)[Top.i - 1].spec)
     IN /\ target # Top.path
        /\ Len(Bucket(exportMap, target)) = 2
        /\ Bucket(exportMap, Top.path) = Bucket(exportMap, target)

\* C20: a call of traceExportsFromFile on a visited path returns without
\* reading a file and leaves the visited set and every bucket unchanged; a
\* file is read and scanned only by a call that finds it unvisited and marks
\* it visited, the visited set never shrinks, and no file is under scan in
\* two calls: within a run a file is scanned at most once.
UnderScan(frames) ==
  \A j, k \in 1..Len(frames) :
    (/\ frames[j].at # "enter" /\ frames[k].at # "enter"
     /\ frames[j].path = frames[k].path) => j = k
BeginsScan ==
  /\ Len(stack') = Len(stack)
  /\ stack'[Len(stack')].at = "scan" /\ stack'[Len(stack')].i = 1
  /\ Top.at = "enter"
C20_Memoized ==
  [][Tracing =>
       /\ (Top.at = "enter" /\ Top.path \in analyzedFiles) =>
            /\ analyzedFiles' = analyzedFiles
            /\ exportMap' = exportMap
            /\ stack' = Pop
       /\ BeginsScan => (Top.path \notin analyzedFiles /\ Top.path \in analyzedFiles')
       /\ analyzedFiles \subseteq analyzedFiles'
       /\ UnderScan(stack) /\ UnderScan(stack')]_vars

C20_TargetedTwice ==
  /\ Returned
  /\ \E f, g, h \in analyzedFiles :
       /\ g # h /\ f \in StarTargets(g) /\ f \in StarTargets(h)
       /\ Bucket(exportMap, f) # <<>>

\* C21: in every state reached during tracing no bucket of the export map
\* holds two entries with the same (exportedName, sourcePath); addExport of
\* an entry whose pair a bucket already holds leaves the export map
\* unchanged; and a step only appends to buckets: entries once added are
\* never removed or altered.
SamePair(x, y) == x.exportedName = y.exportedName /\ x.sourcePath = y.sourcePath
PairsDistinct(map) ==
  \A b \in 1..Len(map) : \A m, n \in 1..Len(map[b].exps) :
    SamePair(map[b].exps[m], map[b].exps[n]) => m = n
PresentPairSkipped(map) ==
  \A b \in 1..Len(map) : \A n \in 1..Len(map[b].exps) :
    addExport(map, map[b].path,
              TracedExport(<<"other">>, map[b].exps[n].exportedName,
                           map[b].exps[n].sourcePath, 0)) = map
OnlyAppended(before, after) ==
  /\ Len(before) <= Len(after)
  /\ \A b \in 1..Len(before) :
       /\ after[b].path = before[b].path
       /\ Len(before[b].exps) <= Len(after[b].exps)
       /\ SubSeq(after[b].exps, 1, Len(before[b].exps)) = before[b].exps
C21_BucketInvariant ==
  [][pc = "trace" =>
       /\ PairsDistinct(exportMap) /\ PairsDistinct(exportMap')
       /\ PresentPairSkipped(exportMap) /\ PresentPairSkipped(exportMap')
       /\ OnlyAppended(exportMap, exportMap')]_vars

\* the same module named by two export * lines: the second copy adds nothing
C21_SecondCopySkipped ==
  /\ Tracing /\ Top.at = "scan" /\ Top.i > 2
  /\ IsResolvedStar(Top.path, Top.i - 1)
  /\ Bucket(exportMap, resolveImportPath(Lines(Top.path)[Top.i - 1].spec)) # <<>>
  /\ \E j \in 1..(Top.i - 2) :
       /\ IsResolvedStar(Top.path, j)
       /\ Lines(Top.path)[j].spec = Lines(Top.path)[Top.i - 1].spec

\* C22: for two files that each export * from the other, whichever of them
\* is the entry and wherever the export * lines sit, the result holds exactly
\* one symbol for every direct export declaration of either file, at its
\* line, and under the declared name when the traced files hold nothing but
\* export * lines and declarations.
ExportStarCycle(f, g) ==
  /\ f # g /\ Readable(f) /\ Readable(g)
  /\ g \in StarTargets(f) /\ f \in StarTargets(g)
OnlyStarsAndDeclarations ==
  \A f \in {x \in analyzedFiles : Readable(x)} :
    \A l \in 1..Len(Lines(f)) : Lines(f)[l].k \in {"star", "export"}
InitCall ==
  /\ pc = "call"
  /\ answer = NoAnswer
  /\ rootExists = TRUE /\ rootIsFile = FALSE
  /\ exports = <<>>
  /\ entryIdx = 1
  /\ stack = <<>>
  /\ analyzedFiles = {}
  /\ exportMap = <<>>
  /\ symbols = <<>>
  /\ stats = NoStats
  /\ outcome = "running"
  /\ files = <<>>
  /\ previous = <<>>
  /\ workspace = <<>>
  /\ memberIdx = 1
  /\ members = <<>>
  /\ aggregate = NoReport

Answered(op) == pc = "done" /\ request.op = op

(***************************************************************************)
(* findSymbolInFile alone.                                                 *)
(***************************************************************************)
LocatePool ==
  {ExportDecl("type", Server), ExportDecl("const", Server),
   BareDecl("type", Server), BareDecl("async function", Server),
   ExportDecl("type", ServerRateLimitDescription),
   BareDecl("type", ServerRateLimitDescription),
   Block(<< <<Server, NoName>> >>), Other}

InitLocate ==
  /\ \E e \in {File(ce) : ce \in UNION {[1..le -> LocatePool] : le \in 0..MaxLocateLines}}
                \cup {NoFile, Unreadable} :
       fs = (FileE :> e) @@ (FileA :> NoFile) @@ (FileB :> NoFile)
  /\ \E name \in {Server, ServerRateLimitDescription} :
       request = [op |-> "findSymbolInFile", filePath |-> FileE, symbolName |-> name]
  /\ InitCall

Locate ==
  /\ pc = "call" /\ request.op = "findSymbolInFile"
  /\ answer' = findSymbolInFile(request.filePath, request.symbolName)
  /\ pc' = "done" /\ outcome' = "returned"
  /\ UNCHANGED <<scanVars, packVars, fs, rootExists, exports, entryIdx, stack,
                 analyzedFiles, exportMap, symbols, stats, request>>

NextLocate == Locate

SpecLocate == InitLocate /\ [][NextLocate]_vars

\* C23: findSymbolInFile returns the line of the first direct export
\* declaring the name when the file has one, and only if it has none the
\* first line holding a bare declaration of the name; it returns null,
\* without raising, when the file has neither or cannot be read.
LeastOf(S) == CHOOSE l \in S : \A m \in S : l <= m
C23_ExportBeforeBare ==
  Answered("findSymbolInFile") =>
    /\ outcome = "returned"
    /\ LET f == request.filePath
           exported == IF Readable(f) THEN ExportLinesOf(f, request.symbolName) ELSE {}
           declared == IF Readable(f)
                       THEN {l \in 1..Len(Lines(f)) :
                               /\ Lines(f)[l].k = "bare"
                               /\ Lines(f)[l].name = request.symbolName}
                       ELSE {}
       IN answer = IF exported # {} THEN LeastOf(exported)
                   ELSE IF declared # {} THEN LeastOf(declared)
                   ELSE 0

\* C24: a re-export statement whose module specifier cannot be resolved (a
\* bare package specifier, or a relative one matching no existing candidate)
\* adds no entry to any bucket and surfaces no error, be it an export * from,
\* an export { .. } from, or a block export of names imported from such a
\* specifier.
Unresolved(spec) == resolveImportPath(spec) = NoPath
ImportedFromUnresolved(f, name) ==
  LET j == ImportLineFrom(Lines(f), name, 1)
  IN j # 0 /\ Unresolved(Lines(f)[j].spec)
UnresolvedReexport(f, i) ==
  LET line == Lines(f)[i] IN
  \/ line.k \in {"star", "named"} /\ Unresolved(line.spec)
  \/ /\ line.k = "block" /\ line.items # <<>>
     /\ \A n \in 1..Len(line.items) :
          ImportedFromUnresolved(f, OriginalName(line.items[n]))
C24_UnresolvedAddsNothing ==
  [][(/\ Tracing /\ Top.at = "scan" /\ Top.i <= Len(Lines(Top.path))
      /\ UnresolvedReexport(Top.path, Top.i))
       => (exportMap' = exportMap /\ outcome' = "running")]_vars

(***************************************************************************)
(* resolveImportPath alone: a specifier, and a file system in which the    *)
(* joined path and each of its extensions exists or not.                   *)
(***************************************************************************)
ResolveBases == {<<"a">>, <<"a", ".ts">>, <<"a", ".js">>, <<"a", ".tsx">>}
Candidates(basePath) ==
  {basePath} \cup {Append(basePath, Extensions[n]) : n \in 1..Len(Extensions)}

InitResolve ==
  /\ \E spec \in {Rel(b) : b \in ResolveBases} \cup {BarePkg} :
       /\ request = [op |-> "resolveImportPath", importPath |-> spec]
       /\ \E found \in SUBSET Candidates(spec.path) :
            fs = [p \in Candidates(spec.path) |->
                    IF p \in found THEN File(<<>>) ELSE NoFile]
  /\ InitCall

Resolve ==
  /\ pc = "call" /\ request.op = "resolveImportPath"
  /\ answer' = resolveImportPath(request.importPath)
  /\ pc' = "done" /\ outcome' = "returned"
  /\ UNCHANGED <<scanVars, packVars, fs, rootExists, exports, entryIdx, stack,
                 analyzedFiles, exportMap, symbols, stats, request>>

NextResolve == Resolve

SpecResolve == InitResolve /\ [][NextResolve]_vars

\* the first path that exists among base + extension, in the order of the list
FirstWithExtension(basePath) ==
  LET hits == {n \in 1..Len(Extensions) : Exists(Append(basePath, Extensions[n]))}
  IN IF hits = {} THEN NoPath ELSE Append(basePath, Extensions[LeastOf(hits)])
EndsWith(basePath, endings) == basePath[Len(basePath)] \in endings

\* C25, as claimed: resolveImportPath on a relative specifier returns the
\* exact joined path when it exists, otherwise the first existing path among
\* base + .ts, .tsx, .js, .jsx, .mjs, /mod.ts, /index.ts in that order,
\* whatever the base path ends with; null when none exists or the specifier
\* does not start with a dot.
C25_ResolutionAsClaimed ==
  Answered("resolveImportPath") =>
    LET spec == request.importPath
    IN answer = IF ~spec.rel THEN NoPath
                ELSE IF Exists(spec.path) THEN spec.path
                ELSE FirstWithExtension(spec.path)

\* C25, amended: resolveImportPath on a relative specifier returns the exact
\* joined path when it exists; otherwise, when the joined path does not end
\* with .ts or .js, the first existing path among base + .ts, .tsx, .js,
\* .jsx, .mjs, /mod.ts, /index.ts in that order; null when none exists, when
\* the joined path ends with .ts or .js and does not exist, or when the
\* specifier does not start with a dot.
C25_Resolution ==
  Answered("resolveImportPath") =>
    LET spec == request.importPath
    IN answer = IF ~spec.rel THEN NoPath
                ELSE IF Exists(spec.path) THEN spec.path
                ELSE IF EndsWith(spec.path, {".ts", ".js"}) THEN NoPath
                ELSE FirstWithExtension(spec.path)

C25_LaterExtensionFound ==
  /\ Answered("resolveImportPath") /\ request.importPath = Rel(<<"a", ".tsx">>)
  /\ ~Exists(<<"a", ".tsx">>) /\ ~Exists(<<"a", ".tsx", ".ts">>)
  /\ Exists(<<"a", ".tsx", "/mod.ts">>) /\ Exists(<<"a", ".tsx", "/index.ts">>)
  /\ answer = <<"a", ".tsx", "/mod.ts">>

(***************************************************************************)
(* The documentation blocks of analyzeFileForJSDoc alone: the lines that   *)
(* jsDocBlocks holds after the pass over a file.  The files are short ones *)
(* of every kind of line, and longer ones of one-line blocks.              *)
(***************************************************************************)
BlockPool == {Doc(FALSE), Comment, ExportDecl("function", foo), Other}
SeqsUpTo(pool, n) == UNION {[1..l -> pool] : l \in 0..n}

InitAssociate ==
  /\ \E lines \in SeqsUpTo(DocPool \cup ScanPool, MaxDocLines)
                     \cup SeqsUpTo(BlockPool, MaxBlockLines) :
       /\ request = [op |-> "jsDocBlocks", lines |-> lines]
       /\ fs = (FileE :> File(lines)) @@ (FileA :> NoFile) @@ (FileB :> NoFile)
  /\ InitCall

Associate ==
  /\ pc = "call" /\ request.op = "jsDocBlocks"
  /\ answer' = jsDocBlocks(request.lines)
  /\ pc' = "done" /\ outcome' = "returned"
  /\ UNCHANGED <<scanVars, packVars, fs, rootExists, exports, entryIdx, stack,
                 analyzedFiles, exportMap, symbols, stats, request>>

NextAssociate == Associate

SpecAssociate == InitAssociate /\ [][NextAssociate]_vars

\* C26: in public-API mode, when a documentation block that is not
\* module-level closes on line i, with j the next line that is neither blank
\* nor a // comment: if line j is export-like the block is bound to line j
\* and to the existing lines among j+1 .. j+5, and to no other line; if line
\* j is not export-like, or there is no such line, it is bound to no line.
\* So the lines bound after the pass are those bound by some block.
ClosesBlock(lines, i) ==
  lines[i].k = "doc" \/ (lines[i].k = "docclose" /\ InsideDoc(lines, i))
ModuleLevel(lines, i) ==
  IF lines[i].k = "doc" THEN lines[i].mod
  ELSE LET o == CHOOSE o \in 1..(i - 1) :
                  /\ lines[o].k = "docopen"
                  /\ \A q \in (o + 1)..(i - 1) : lines[q].k # "docopen"
       IN \E q \in o..i : lines[q].k # "doc" /\ lines[q].mod
ExportLike(line) == line.k \in {"export", "default", "star", "named", "block"}
BoundByBlock(lines, i) ==
  LET after == {j \in (i + 1)..Len(lines) : lines[j].k \notin {"blank", "comment"}}
  IN IF ClosesBlock(lines, i) /\ ~ModuleLevel(lines, i) /\ after # {}
     THEN LET j == LeastOf(after)
          IN IF ExportLike(lines[j])
             THEN {l \in 1..Len(lines) : j <= l /\ l <= j + 5}
             ELSE {}
     ELSE {}
C26_BlockBinding ==
  Answered("jsDocBlocks") =>
    answer = UNION {BoundByBlock(request.lines, i) : i \in 1..Len(request.lines)}

\* a block bound to the export line under it and the five lines after, and
\* not to the line after those
C26_BoundFiveLinesOn ==
  /\ Answered("jsDocBlocks") /\ Len(request.lines) = 8
  /\ request.lines[1].k = "doc" /\ request.lines[2].k = "export"
  /\ answer = 2..7

\* C27: export default function foo / export default class Foo yields a
\* symbol named foo / Foo of kind function / class and exportType default;
\* any other export default line yields a symbol named default of kind
\* variable and exportType default; in public-API mode as in full-scan mode.
NamedDefault(line) == line.kw \in {"function", "class"} /\ line.name # NoName
AnalysedFiles ==
  IF PublicApiMode THEN {f \in EntryFiles : Readable(f)} ELSE ScannedFiles
DefaultAsClaimed(f, l) ==
  LET line == Lines(f)[l] IN
  /\ Cardinality(SymbolsOfLine(f, l)) = 1
  /\ \A n \in SymbolsOfLine(f, l) :
       /\ symbols[n].exportType = "default"
       /\ symbols[n].name = IF NamedDefault(line) THEN line.name ELSE DefaultName
       /\ symbols[n].type = IF NamedDefault(line) THEN line.kw ELSE "variable"
C27_DefaultExports ==
  Returned =>
    \A f \in AnalysedFiles : \A l \in 1..Len(Lines(f)) :
      Lines(f)[l].k = "default" => DefaultAsClaimed(f, l)

(***************************************************************************)
(* A second run, after the entry paths of the exports mapping have been    *)
(* listed in another order, or two re-export statements of a file have     *)
(* changed places (every other line keeps its number).                     *)
(***************************************************************************)
Reverse(seq) == [n \in 1..Len(seq) |-> seq[Len(seq) + 1 - n]]
IsReexport(line) == line.k \in {"star", "named", "block"}
Swapped(lines, i, j) == [lines EXCEPT ![i] = lines[j], ![j] = lines[i]]

\* the state of analyzeDirectory at the start of a call, after a call that returned
SecondRun ==
  /\ Returned /\ PublicApiMode /\ previous = <<>>
  /\ previous' = <<symbols>>
  /\ pc' = "start" /\ outcome' = "running"
  /\ entryIdx' = 1 /\ stack' = <<>> /\ analyzedFiles' = {} /\ exportMap' = <<>>
  /\ symbols' = <<>> /\ stats' = NoStats
  /\ UNCHANGED <<unitVars, packVars, rootExists, files>>

ReorderEntries ==
  /\ Reverse(exports) # exports
  /\ SecondRun
  /\ exports' = Reverse(exports)
  /\ UNCHANGED <<fs, rootIsFile>>

ReorderStatements ==
  /\ \E f \in {g \in Files : Readable(g)} : \E i, j \in 1..Len(Lines(f)) :
       /\ i < j /\ IsReexport(Lines(f)[i]) /\ IsReexport(Lines(f)[j])
       /\ Lines(f)[i] # Lines(f)[j]
       /\ fs' = [fs EXCEPT ![f].lines = Swapped(Lines(f), i, j)]
  /\ SecondRun
  /\ UNCHANGED <<exports, rootIsFile>>

NextReorder == Next \/ ReorderEntries \/ ReorderStatements

SpecReorder == Init /\ [][NextReorder]_vars

\* C28: in public-API mode the set of reported symbols (name, kind, file,
\* line, hasJSDoc) depends neither on the order in which the entry paths are
\* listed in the exports mapping nor on the order of the re-export statements
\* inside a traced file.
Reported(syms) ==
  {[name |-> syms[n].name, type |-> syms[n].type, file |-> syms[n].file,
    line |-> syms[n].line, hasJSDoc |-> syms[n].hasJSDoc] : n \in 1..Len(syms)}
C28_OrderIndependent ==
  (Returned /\ PublicApiMode /\ previous # <<>>) =>
    Reported(symbols) = Reported(previous[1])

(***************************************************************************)
(* A second run in the other mode: after public-API mode with the file     *)
(* TargetFile as the sole entry, a full scan with that file as the target. *)
(***************************************************************************)
SwitchMode ==
  /\ exports = <<TargetFile>> /\ ~rootIsFile /\ Readable(TargetFile)
  /\ SecondRun
  /\ exports' = <<>>
  /\ rootIsFile' = TRUE
  /\ UNCHANGED fs

NextModes == Next \/ SwitchMode

SpecModes == Init /\ [][NextModes]_vars

\* C29: for a single file that holds only direct export declarations and
\* documentation blocks, public-API mode with that file as the sole entry
\* and full-scan mode of that file report the same set of symbols, with the
\* same name, kind, line and hasJSDoc flag.
OnlyDeclarationsAndDocs(f) ==
  \A l \in 1..Len(Lines(f)) :
    \/ Lines(f)[l].k \in {"export", "doc", "docopen", "docclose", "blank", "comment"}
    \/ Lines(f)[l].k = "other" /\ InsideDoc(Lines(f), l)
ReportedInFile(syms) ==
  {[name |-> syms[n].name, type |-> syms[n].type, line |-> syms[n].line,
    hasJSDoc |-> syms[n].hasJSDoc] : n \in 1..Len(syms)}
C29_ModesAgree ==
  (/\ Returned /\ FullScanMode /\ previous # <<>>
   /\ OnlyDeclarationsAndDocs(TargetFile)) =>
    ReportedInFile(symbols) = ReportedInFile(previous[1])

\* C30: the aggregate averagePercentage equals the percentage calculateStats
\* gives for the summed counts (documented = totalDocumented, total =
\* totalExports); in particular it is 100 whenever every member record has
\* percentage 100; and every member record, failed members included, has
\* percentage 100 when its total is 0.
C30_AggregateConsistent ==
  Returned =>
    /\ aggregate.averagePercentage =
         calculateStats(MemberSymbols(aggregate.totalDocumented,
                                      aggregate.totalUndocumented)).percentage
    /\ (\A n \in 1..Len(members) : members[n].stats.percentage = 100) =>
         aggregate.averagePercentage = 100
    /\ \A n \in 1..Len(members) :
         members[n].stats.total = 0 => members[n].stats.percentage = 100

=============================================================================
